---- MODULE Spec2Model ----
(***************************************************************************)
(* Captain Data export processor (src/app.py): the record normalisation    *)
(* and derivation pipeline and its four helper functions.                  *)
(*                                                                         *)
(* Python values are tagged records.  A str is a sequence of one-character *)
(* strings.  A dict is a function whose domain is a set of keys, each key  *)
(* a str.  The text of an `experiences` cell is kept in lexed form, as a   *)
(* sequence of JSON tokens, and is decoded by json_loads below.            *)
(***************************************************************************)
EXTENDS Integers, Sequences, FiniteSets, TLC

VARIABLES
    numpy_strict,   \* the installed numpy raises on bool() of an empty array
    years2_list,    \* the invalidation tokens read from the text area
    uploaded,       \* the table read from the uploaded CSV, None before upload
    df,             \* the data frame the script works on
    pc,             \* position of the script run
    call            \* the last direct call of a helper function

vars == <<numpy_strict, years2_list, uploaded, df, pc, call>>

(* ------------------------------ bounds --------------------------------- *)
MaxLen == 2
MaxRows == 2
MaxTokens == 3

(* --------------------------- Python values ----------------------------- *)
None == [t |-> "None"]
NaN == [t |-> "nan"]
Str(s) == [t |-> "str", s |-> s]
Num(n) == [t |-> "num", n |-> n]
Dict(d) == [t |-> "dict", d |-> d]
List(l) == [t |-> "list", l |-> l]
Text(toks) == [t |-> "text", toks |-> toks]

EmptyDict == [k \in {} |-> None]

isinstance_dict(v) == v.t = "dict"
isinstance_list(v) == v.t = "list"

\* bool(v): Python truthiness
Truthy(v) ==
    CASE v.t = "None" -> FALSE
      [] v.t = "nan" -> TRUE
      [] v.t = "str" -> v.s # <<>>
      [] v.t = "text" -> v.toks # <<>>
      [] v.t = "num" -> v.n # 0
      [] v.t = "dict" -> DOMAIN v.d # {}
      [] v.t = "list" -> v.l # <<>>

\* a or b
Or(a, b) == IF Truthy(a) THEN a ELSE b

\* e.get(k)
Get(e, k) == IF k \in DOMAIN e.d THEN e.d[k] ELSE None

(* ------------------------------ strings -------------------------------- *)
UpperChars == <<"A","B","C","D","E","F","G","H","I","J","K","L","M",
                "N","O","P","Q","R","S","T","U","V","W","X","Y","Z">>
LowerChars == <<"a","b","c","d","e","f","g","h","i","j","k","l","m",
                "n","o","p","q","r","s","t","u","v","w","x","y","z">>

LowerChar(c) ==
    IF \E i \in 1..Len(UpperChars) : UpperChars[i] = c
    THEN LowerChars[CHOOSE i \in 1..Len(UpperChars) : UpperChars[i] = c]
    ELSE c

\* s.lower()
Lower(s) == [i \in 1..Len(s) |-> LowerChar(s[i])]

IsSpace(c) == c = " "

RECURSIVE LStrip(_)
LStrip(s) == IF s # <<>> /\ IsSpace(Head(s)) THEN LStrip(Tail(s)) ELSE s

RECURSIVE RStrip(_)
RStrip(s) ==
    IF s # <<>> /\ IsSpace(s[Len(s)]) THEN RStrip(SubSeq(s, 1, Len(s) - 1)) ELSE s

\* s.strip()
Strip(s) == RStrip(LStrip(s))

\* n in s
Contains(n, s) ==
    \E i \in 1..(Len(s) - Len(n) + 1) : SubSeq(s, i, i + Len(n) - 1) = n

DigitChars == <<"0","1","2","3","4","5","6","7","8","9">>

RECURSIVE Digits(_)
Digits(n) ==
    IF n < 10 THEN <<DigitChars[n + 1]>>
    ELSE Digits(n \div 10) \o <<DigitChars[(n % 10) + 1]>>

\* str(v), for the scalar values a cell or a field holds
py_str(v) ==
    CASE v.t = "str" -> v.s
      [] v.t = "None" -> <<"N","o","n","e">>
      [] v.t = "nan" -> <<"n","a","n">>
      [] v.t = "num" -> Digits(v.n)

(* -------------------------------- keys --------------------------------- *)
job_period == <<"j","o","b","_","p","e","r","i","o","d">>
job_time_period == <<"j","o","b","_","t","i","m","e","_","p","e","r","i","o","d">>
company_name == <<"c","o","m","p","a","n","y","_","n","a","m","e">>
title == <<"t","i","t","l","e">>
job_title == <<"j","o","b","_","t","i","t","l","e">>
linkedin_company_url ==
    <<"l","i","n","k","e","d","i","n","_","c","o","m","p","a","n","y","_","u","r","l">>
linkedin_company_url_cleaned ==
    linkedin_company_url \o <<"_","c","l","e","a","n","e","d">>

PRESENT == <<"p","r","e","s","e","n","t">>
EMPTY == Str(<<>>)
VALID == Str(<<"V","a","l","i","d">>)
INVALID == Str(<<"I","n","v","a","l","i","d">>)

(* ----------------------------- json.loads ------------------------------ *)
\* JSON tokens: punctuation, string literal, number literal, the literals
\* null and NaN, and a lexeme that is no JSON token
P(c) == [k |-> "p", c |-> c]
Q(s) == [k |-> "q", s |-> s]
N(n) == [k |-> "n", n |-> n]
Lit(c) == [k |-> "l", c |-> c]
Junk == [k |-> "x"]

IsP(tk, c) == tk.k = "p" /\ tk.c = c

Ok(v, next) == [ok |-> TRUE, v |-> v, next |-> next]
Fail == [ok |-> FALSE, v |-> None, next |-> 0]

Put(d, key, v) == [k \in DOMAIN d \cup {key} |-> IF k = key THEN v ELSE d[k]]

RECURSIVE ParseValue(_, _)
RECURSIVE ParseElems(_, _, _)
RECURSIVE ParseMembers(_, _, _)

ParseValue(toks, i) ==
    IF i > Len(toks) THEN Fail
    ELSE LET tk == toks[i] IN
         CASE tk.k = "q" -> Ok(Str(tk.s), i + 1)
           [] tk.k = "n" -> Ok(Num(tk.n), i + 1)
           [] tk.k = "l" -> Ok(IF tk.c = "null" THEN None ELSE NaN, i + 1)
           [] IsP(tk, "[") ->
                IF i + 1 <= Len(toks) /\ IsP(toks[i + 1], "]")
                THEN Ok(List(<<>>), i + 2)
                ELSE ParseElems(toks, i + 1, <<>>)
           [] IsP(tk, "{") ->
                IF i + 1 <= Len(toks) /\ IsP(toks[i + 1], "}")
                THEN Ok(Dict(EmptyDict), i + 2)
                ELSE ParseMembers(toks, i + 1, EmptyDict)
           [] OTHER -> Fail

ParseElems(toks, i, acc) ==
    LET r == ParseValue(toks, i) IN
    IF ~r.ok \/ r.next > Len(toks) THEN Fail
    ELSE IF IsP(toks[r.next], ",") THEN ParseElems(toks, r.next + 1, Append(acc, r.v))
    ELSE IF IsP(toks[r.next], "]") THEN Ok(List(Append(acc, r.v)), r.next + 1)
    ELSE Fail

ParseMembers(toks, i, d) ==
    IF i + 1 > Len(toks) \/ toks[i].k # "q" \/ ~IsP(toks[i + 1], ":") THEN Fail
    ELSE LET r == ParseValue(toks, i + 2) IN
         IF ~r.ok \/ r.next > Len(toks) THEN Fail
         ELSE IF IsP(toks[r.next], ",")
              THEN ParseMembers(toks, r.next + 1, Put(d, toks[i].s, r.v))
         ELSE IF IsP(toks[r.next], "}")
              THEN Ok(Dict(Put(d, toks[i].s, r.v)), r.next + 1)
         ELSE Fail

\* json.loads(x): [raised, value]; a non-str argument raises TypeError, a
\* text that is no single JSON document raises JSONDecodeError
json_loads(x) ==
    IF x.t # "text" THEN [raised |-> TRUE, value |-> None]
    ELSE LET r == ParseValue(x.toks, 1) IN
         IF r.ok /\ r.next = Len(x.toks) + 1
         THEN [raised |-> FALSE, value |-> r.v]
         ELSE [raised |-> TRUE, value |-> None]

(* ------------------------------- pd.isna ------------------------------- *)
isna_scalar(v) == v.t \in {"None", "nan"}

\* bool(pd.isna(x)): [raised, value].  For a list pd.isna gives an array of
\* the elements' isna; bool() of it raises ValueError for two or more
\* elements, is the element's isna for one, and for none is False or a
\* ValueError, by the numpy installed.  The lists passed hold scalars and
\* mappings, so the array is one-dimensional.
isna_truth(x) ==
    IF x.t = "list"
    THEN CASE Len(x.l) = 0 -> [raised |-> numpy_strict, value |-> FALSE]
           [] Len(x.l) = 1 -> [raised |-> FALSE, value |-> isna_scalar(x.l[1])]
           [] OTHER -> [raised |-> TRUE, value |-> FALSE]
    ELSE [raised |-> FALSE, value |-> isna_scalar(x)]

(* --------------------------- helper functions -------------------------- *)
Return(v) == [raised |-> FALSE, value |-> v]
Raise == [raised |-> TRUE, value |-> None]

IsEmptyStr(x) == (x.t = "str" /\ x.s = <<>>) \/ (x.t = "text" /\ x.toks = <<>>)

\* safe_json_loads without the try/except around json.loads
safe_json_loads_noexcept(x) ==
    LET na == isna_truth(x) IN
    IF na.raised THEN Raise
    ELSE IF na.value \/ IsEmptyStr(x) \/ x = None THEN Return(None)
    ELSE IF isinstance_dict(x) \/ isinstance_list(x) THEN Return(x)
    ELSE json_loads(x)

safe_json_loads(x) ==
    LET na == isna_truth(x) IN
    IF na.raised THEN Raise
    ELSE IF na.value \/ IsEmptyStr(x) \/ x = None THEN Return(None)
    ELSE IF isinstance_dict(x) \/ isinstance_list(x) THEN Return(x)
    ELSE LET r == json_loads(x) IN
         IF r.raised THEN Return(None) ELSE Return(r.value)

\* RenameKey that pops job_period and loses its value
RenameKey_drop(item) ==
    Dict([k \in (DOMAIN item.d \ {job_period}) \cup {job_time_period} |->
            IF k = job_time_period THEN EMPTY ELSE item.d[k]])

\* dict(item); item["job_time_period"] = item.pop("job_period")
RenameKey(item) ==
    Dict([k \in (DOMAIN item.d \ {job_period}) \cup {job_time_period} |->
            IF k = job_time_period THEN item.d[job_period] ELSE item.d[k]])

\* fix_item without the test that job_time_period is absent
fix_item_overwrite(item) ==
    IF isinstance_dict(item) /\ job_period \in DOMAIN item.d
    THEN RenameKey(item)
    ELSE item

fix_item(item) ==
    IF isinstance_dict(item)
       /\ job_period \in DOMAIN item.d /\ job_time_period \notin DOMAIN item.d
    THEN RenameKey(item)
    ELSE item

fix_job_period_key(experiences) ==
    IF ~isinstance_list(experiences) THEN experiences
    ELSE List([i \in 1..Len(experiences.l) |-> fix_item(experiences.l[i])])

get_period(e) ==
    IF ~isinstance_dict(e) THEN <<>>
    ELSE py_str(Or(Or(Get(e, job_time_period), Get(e, job_period)), EMPTY))

\* pick_scan falling back to the last entry instead of the first
RECURSIVE pick_scan_fallback_last(_, _)
pick_scan_fallback_last(l, i) ==
    IF i > Len(l) THEN l[Len(l)]
    ELSE IF Contains(PRESENT, Lower(get_period(l[i]))) THEN l[i]
    ELSE pick_scan_fallback_last(l, i + 1)

RECURSIVE pick_scan(_, _)
pick_scan(l, i) ==
    IF i > Len(l) THEN l[1]
    ELSE IF Contains(PRESENT, Lower(get_period(l[i]))) THEN l[i]
    ELSE pick_scan(l, i + 1)

pick_current_experience(experiences) ==
    IF ~isinstance_list(experiences) \/ Len(experiences.l) = 0 THEN None
    ELSE pick_scan(experiences.l, 1)

\* years2_scan deciding on the first non-blank token alone
RECURSIVE years2_scan_first(_, _, _)
years2_scan_first(s, years_list, i) ==
    IF i > Len(years_list) THEN VALID
    ELSE LET y == Strip(years_list[i]) IN
         IF y = <<>> THEN years2_scan_first(s, years_list, i + 1)
         ELSE IF Contains(Lower(y), Lower(s)) THEN INVALID
         ELSE VALID

RECURSIVE years2_scan(_, _, _)
years2_scan(s, years_list, i) ==
    IF i > Len(years_list) THEN VALID
    ELSE LET y == Strip(years_list[i]) IN
         IF y = <<>> THEN years2_scan(s, years_list, i + 1)
         ELSE IF Contains(Lower(y), Lower(s)) THEN INVALID
         ELSE years2_scan(s, years_list, i + 1)

years2_invalid(period_text, years_list) ==
    IF period_text = None THEN EMPTY
    ELSE LET s == Strip(py_str(period_text)) IN
         IF s = <<>> THEN EMPTY ELSE years2_scan(s, years_list, 1)

\* e.get(k, default): the default only for an absent key
GetDefault(e, k, default) == IF k \in DOMAIN e.d THEN e.d[k] ELSE default

\* extract_fields falling back only when a key is absent
extract_fields_absent_only(cur) ==
    IF isinstance_dict(cur)
    THEN [period |-> GetDefault(cur, job_time_period, GetDefault(cur, job_period, EMPTY)),
          company |-> GetDefault(cur, company_name, EMPTY),
          title |-> GetDefault(cur, title, GetDefault(cur, job_title, EMPTY)),
          url |-> GetDefault(cur, linkedin_company_url,
                             GetDefault(cur, linkedin_company_url_cleaned, EMPTY))]
    ELSE [period |-> EMPTY, company |-> EMPTY, title |-> EMPTY, url |-> EMPTY]

\* the four values lines 113-122 append for one selected experience
extract_fields(cur) ==
    IF isinstance_dict(cur)
    THEN [period |-> Or(Or(Get(cur, job_time_period), Get(cur, job_period)), EMPTY),
          company |-> Or(Get(cur, company_name), EMPTY),
          title |-> Or(Or(Get(cur, title), Get(cur, job_title)), EMPTY),
          url |-> Or(Or(Get(cur, linkedin_company_url),
                        Get(cur, linkedin_company_url_cleaned)), EMPTY)]
    ELSE [period |-> EMPTY, company |-> EMPTY, title |-> EMPTY, url |-> EMPTY]

\* length of a longest common subsequence
RECURSIVE LCS(_, _)
LCS(a, b) ==
    IF a = <<>> \/ b = <<>> THEN 0
    ELSE IF Head(a) = Head(b) THEN 1 + LCS(Tail(a), Tail(b))
    ELSE LET x == LCS(Tail(a), b)
             y == LCS(a, Tail(b))
         IN IF x >= y THEN x ELSE y

\* a float kept as the fraction num/den
Float(num, den) == [t |-> "float", num |-> num, den |-> den]

\* rapidfuzz.fuzz.ratio(a, b) / 100.0: the normalised Indel similarity
\* 1 - (len(a) + len(b) - 2*lcs) / (len(a) + len(b)), 1 for two empty strings
ratio(a, b) ==
    IF Len(a) + Len(b) = 0 THEN Float(1, 1)
    ELSE Float(2 * LCS(a, b), Len(a) + Len(b))

\* r.get(name, "")
RowGet(r, name) == IF name \in DOMAIN r THEN r[name] ELSE EMPTY

\* the lambda of lines 137-139
similarity(r) ==
    LET a == py_str(RowGet(r, "company_name"))
        b == py_str(RowGet(r, "current_company_name_from_exp"))
    IN IF Strip(a) # <<>> /\ Strip(b) # <<>> THEN ratio(a, b) ELSE EMPTY

(* ------------------------------ data frame ----------------------------- *)
Range(f) == {f[i] : i \in DOMAIN f}

\* df[name]
Column(d, name) == [i \in 1..Len(d.rows) |-> d.rows[i][name]]

\* df[name] = vals: an existing column is replaced where it stands, a new
\* one is appended
Assign(d, name, vals) ==
    [cols |-> IF name \in Range(d.cols) THEN d.cols ELSE Append(d.cols, name),
     rows |-> [i \in 1..Len(d.rows) |-> Put(d.rows[i], name, vals[i])]]

(* ------------------------------- inputs -------------------------------- *)
S_Present == <<"P","r","e","s","e","n","t">>
S_2015_PRESENT == <<"2","0","1","5"," ","-"," ","P","R","E","S","E","N","T">>
S_2019 == <<"2","0","1","9">>
S_2015_padded == <<" ","2","0","1","5"," ">>
S_blank == <<" ">>
S_Acme == <<"A","c","m","e">>
S_Acme_Inc == <<"A","c","m","e"," ","I","n","c">>
S_Dev == <<"D","e","v">>
S_url == <<"l","n","k","d",".","i","n","/","a">>

Absent == [t |-> "absent"]

\* the dict holding the given key/value pairs whose value is not Absent
MkDict(pairs) ==
    LET here == {p \in pairs : p[2] # Absent} IN
    Dict([k \in {p[1] : p \in here} |-> (CHOOSE p \in here : p[1] = k)[2]])

JtpOpts == {Absent, None, Str(S_2015_PRESENT), Str(S_2019)}
JpOpts == {Absent, EMPTY, Str(S_Present)}
CoOpts == {Absent, Str(S_Acme)}

Experiences ==
    {MkDict({<<job_time_period, a>>, <<job_period, b>>, <<company_name, c>>}) :
        a \in JtpOpts, b \in JpOpts, c \in CoOpts}

\* list entries: experience mappings and three entries that are no mapping
Entries == Experiences \cup {None, Num(7), Str(S_Present)}

SeqsUpTo(S, n) == UNION {[1..m -> S] : m \in 0..n}

ExperienceLists == {List(l) : l \in SeqsUpTo(Entries, MaxLen)}

NonLists == {None, NaN, Num(7), Str(S_Present), MkDict({<<job_period, Str(S_Present)>>})}

PeriodTexts ==
    {None, EMPTY, Str(S_blank), Str(S_Present), Str(S_2015_PRESENT), Str(S_2019),
     Str(S_2015_padded), Num(2015)}

Tokens == {<<>>, S_blank, S_2015_padded, S_2019, <<"p","R","e","s">>}

TokenLists == SeqsUpTo(Tokens, MaxTokens)

\* cell texts: JSON documents and texts json.loads rejects
T_list1 ==
    <<P("["), P("{"), Q(job_period), P(":"), Q(S_Present), P(","),
      Q(company_name), P(":"), Q(S_Acme), P("}"), P("]")>>
T_dict == <<P("{"), Q(job_period), P(":"), Q(S_Present), P("}")>>
T_cut == SubSeq(T_list1, 1, Len(T_list1) - 1)
T_extra == T_list1 \o <<P("]")>>
T_nocomma == <<P("["), N(1), N(2), P("]")>>
T_badkey == <<P("{"), N(1), P(":"), N(2), P("}")>>

Texts ==
    {Text(<<>>), Text(<<Junk>>), Text(<<N(5)>>), Text(<<Lit("null")>>),
     Text(<<Lit("NaN")>>), Text(<<Q(S_Present)>>), Text(<<P("["), P("]")>>),
     Text(<<P("{"), P("}")>>), Text(T_list1), Text(T_dict), Text(T_cut),
     Text(T_extra), Text(T_nocomma), Text(T_badkey)}

LoadInputs == Texts \cup NonLists \cup ExperienceLists

(* ----------------------- direct calls of the helpers ------------------- *)
NoCall == [fn |-> "none"]
NoTable == [t |-> "None"]

Call_safe_json_loads ==
    /\ call = NoCall
    /\ \E x \in LoadInputs :
          call' = [fn |-> "safe_json_loads", x |-> x, out |-> safe_json_loads(x)]
    /\ UNCHANGED <<numpy_strict, years2_list, uploaded, df, pc>>

Call_fix_job_period_key ==
    /\ call = NoCall
    /\ \E x \in ExperienceLists \cup NonLists :
          call' = [fn |-> "fix_job_period_key", x |-> x, out |-> fix_job_period_key(x)]
    /\ UNCHANGED <<numpy_strict, years2_list, uploaded, df, pc>>

Call_pick_current_experience ==
    /\ call = NoCall
    /\ \E x \in ExperienceLists \cup NonLists :
          call' = [fn |-> "pick_current_experience", x |-> x,
                   out |-> pick_current_experience(x)]
    /\ UNCHANGED <<numpy_strict, years2_list, uploaded, df, pc>>

Call_years2_invalid ==
    /\ call = NoCall
    /\ \E s \in PeriodTexts, ys \in TokenLists :
          call' = [fn |-> "years2_invalid", s |-> s, ys |-> ys,
                   out |-> years2_invalid(s, ys)]
    /\ UNCHANGED <<numpy_strict, years2_list, uploaded, df, pc>>

\* lines 103 and 112-114 for one parsed cell: normalise, select, read the period
Call_current_period ==
    /\ call = NoCall
    /\ \E x \in ExperienceLists \cup NonLists :
          LET fixed == fix_job_period_key(x)
              cur == pick_current_experience(fixed)
          IN call' = [fn |-> "current_period", x |-> x, fixed |-> fixed,
                      cur |-> cur, period |-> extract_fields(cur).period]
    /\ UNCHANGED <<numpy_strict, years2_list, uploaded, df, pc>>

InitFn ==
    /\ numpy_strict \in BOOLEAN
    /\ years2_list = <<>>
    /\ uploaded = NoTable
    /\ df = NoTable
    /\ pc = "idle"
    /\ call = NoCall

NextFn ==
    \/ Call_safe_json_loads
    \/ Call_fix_job_period_key
    \/ Call_pick_current_experience
    \/ Call_years2_invalid
    \/ Call_current_period

SpecFn == InitFn /\ [][NextFn]_vars

(* --------------------------- uploaded tables --------------------------- *)
T_list2 ==
    <<P("["),
      P("{"), Q(job_time_period), P(":"), Q(S_2019), P(","),
              Q(title), P(":"), Q(S_Dev), P("}"), P(","),
      P("{"), Q(job_time_period), P(":"), Lit("null"), P(","),
              Q(job_period), P(":"), Q(S_2015_PRESENT), P(","),
              Q(company_name), P(":"), Q(S_Acme_Inc), P(","),
              Q(title), P(":"), Q(<<>>), P(","),
              Q(job_title), P(":"), Q(S_Dev), P(","),
              Q(linkedin_company_url), P(":"), Lit("null"), P(","),
              Q(linkedin_company_url_cleaned), P(":"), Q(S_url), P("}"),
      P("]")>>
T_mixed ==
    <<P("["), N(7), P(","), P("{"), Q(job_period), P(":"), Q(S_Present), P(","),
      Q(company_name), P(":"), Q(S_Acme), P("}"), P("]")>>
T_nums == <<P("["), N(7), P("]")>>

\* what read_csv gives for an `experiences` cell: NaN for an empty cell,
\* else the cell's text
Cells ==
    {NaN, Text(<<Junk>>), Text(T_cut), Text(<<P("["), P("]")>>), Text(T_dict),
     Text(<<N(5)>>), Text(T_list1), Text(T_list2), Text(T_mixed), Text(T_nums)}

\* an `experiences` cell with a `company_name` cell
RowKinds ==
    {<<c, Str(S_Acme)>> : c \in Cells}
    \cup {<<NaN, NaN>>, <<Text(T_list1), NaN>>, <<Text(T_list1), Str(S_blank)>>,
          <<Text(T_list2), Str(S_Acme_Inc)>>}

S_old == <<"o","l","d">>

Layouts ==
    {<<"id", "experiences", "company_name">>,
     <<"id", "company_name">>,
     <<"id", "experiences">>,
     <<"id", "current_job_time_period", "experiences", "company_name">>,
     <<"experiences_json", "experiences", "company_name">>}

CellOf(name, i, kind) ==
    CASE name = "id" -> Num(i)
      [] name = "experiences" -> kind[1]
      [] name = "company_name" -> kind[2]
      [] OTHER -> Str(S_old)

Table(cols, kinds) ==
    [cols |-> cols,
     rows |-> [i \in 1..Len(kinds) |->
                 [name \in Range(cols) |-> CellOf(name, i, kinds[i])]]]

Tables ==
    {Table(cols, kinds) :
        cols \in Layouts, kinds \in UNION {[1..n -> RowKinds] : n \in 1..MaxRows}}

\* the text area's default (line 93): "2018" down to "2000"
DefaultYears2 == [i \in 1..19 |-> Digits(2019 - i)]

Years2Lists == {DefaultYears2, <<S_2019, S_blank>>}

(* ------------------------------ pipeline ------------------------------- *)
NRows == Len(df.rows)

\* line 99: df = pd.read_csv(uploaded)
Upload ==
    /\ pc = "idle"
    /\ \E tbl \in Tables : uploaded' = tbl /\ df' = tbl
    /\ pc' = "parse"
    /\ UNCHANGED <<numpy_strict, years2_list, call>>

\* line 102; df["experiences"] raises KeyError when the column is absent
Parse ==
    /\ pc = "parse"
    /\ IF "experiences" \notin Range(df.cols)
       THEN pc' = "error" /\ UNCHANGED df
       ELSE LET outs == [i \in 1..NRows |-> safe_json_loads(df.rows[i]["experiences"])]
            IN IF \E i \in 1..NRows : outs[i].raised
               THEN pc' = "error" /\ UNCHANGED df
               ELSE /\ df' = Assign(df, "experiences_json",
                                    [i \in 1..NRows |-> outs[i].value])
                    /\ pc' = "normalize"
    /\ UNCHANGED <<numpy_strict, years2_list, uploaded, call>>

\* line 103
Normalize ==
    /\ pc = "normalize"
    /\ df' = Assign(df, "experiences_json",
                    [i \in 1..NRows |->
                        fix_job_period_key(df.rows[i]["experiences_json"])])
    /\ pc' = "extract"
    /\ UNCHANGED <<numpy_strict, years2_list, uploaded, call>>

\* lines 106-127
Extract ==
    /\ pc = "extract"
    /\ LET f == [i \in 1..NRows |->
                    extract_fields(
                        pick_current_experience(df.rows[i]["experiences_json"]))]
           d1 == Assign(df, "current_job_time_period",
                        [i \in 1..NRows |-> f[i].period])
           d2 == Assign(d1, "current_company_name_from_exp",
                        [i \in 1..NRows |-> f[i].company])
           d3 == Assign(d2, "current_job_title_from_exp",
                        [i \in 1..NRows |-> f[i].title])
       IN df' = Assign(d3, "current_linkedin_company_url_from_exp",
                       [i \in 1..NRows |-> f[i].url])
    /\ pc' = "validity"
    /\ UNCHANGED <<numpy_strict, years2_list, uploaded, call>>

\* lines 130-132
Validity ==
    /\ pc = "validity"
    /\ df' = Assign(df, "current_job_time_period_validity",
                    [i \in 1..NRows |->
                        years2_invalid(df.rows[i]["current_job_time_period"],
                                       years2_list)])
    /\ pc' = "similarity"
    /\ UNCHANGED <<numpy_strict, years2_list, uploaded, call>>

\* lines 136-143
Similarity ==
    /\ pc = "similarity"
    /\ df' = Assign(df, "company_name_similarity_to_exp",
                    [i \in 1..NRows |-> similarity(df.rows[i])])
    /\ pc' = "done"
    /\ UNCHANGED <<numpy_strict, years2_list, uploaded, call>>

Init ==
    /\ numpy_strict \in BOOLEAN
    /\ years2_list \in Years2Lists
    /\ uploaded = NoTable
    /\ df = NoTable
    /\ pc = "idle"
    /\ call = NoCall

Next ==
    \/ Upload
    \/ Parse
    \/ Normalize
    \/ Extract
    \/ Validity
    \/ Similarity

Spec == Init /\ [][Next]_vars

(* ======================= properties of the helpers ===================== *)
Called(fn) == call.fn = fn

\* the period text of a list entry, as the selector's contract words it
PeriodText(e) ==
    IF e.t # "dict" THEN <<>>
    ELSE IF job_time_period \in DOMAIN e.d /\ Truthy(e.d[job_time_period])
         THEN py_str(e.d[job_time_period])
    ELSE IF job_period \in DOMAIN e.d /\ Truthy(e.d[job_period])
         THEN py_str(e.d[job_period])
    ELSE <<>>

MatchesPresent(e) == Contains(PRESENT, Lower(PeriodText(e)))

\* index of the entry the contract selects from a non-empty list
CurrentIndex(l) ==
    IF \E i \in 1..Len(l) : MatchesPresent(l[i])
    THEN CHOOSE i \in 1..Len(l) :
            MatchesPresent(l[i]) /\ \A j \in 1..(i - 1) : ~MatchesPresent(l[j])
    ELSE 1

\* C4: pick_current_experience returns null for a null, non-list or empty
\* input; for a non-empty list it returns the entry at the smallest index
\* whose period text contains "present" case-insensitively, else the entry at
\* index 0; a result for a non-empty list is always an element of the list.
C4_PickFirstPresentElseFirst ==
    Called("pick_current_experience") =>
        LET x == call.x
            out == call.out
        IN IF x.t # "list" \/ Len(x.l) = 0
           THEN out = None
           ELSE /\ out = x.l[CurrentIndex(x.l)]
                /\ \E i \in 1..Len(x.l) : out = x.l[i]

C4_Witness ==
    /\ Called("pick_current_experience")
    /\ call.x.t = "list"
    /\ Len(call.x.l) = 2
    /\ ~MatchesPresent(call.x.l[1])
    /\ MatchesPresent(call.x.l[2])
    /\ call.x.l[1] # call.x.l[2]
    /\ call.out = call.x.l[2]

NonBlank(y) == Strip(y) # <<>>

Perms(n) == {p \in [1..n -> 1..n] : \A i, j \in 1..n : p[i] = p[j] => i = j}

InsertAt(ys, j, b) == SubSeq(ys, 1, j - 1) \o <<b>> \o SubSeq(ys, j, Len(ys))

\* C5: years2_invalid returns one of "", "Valid", "Invalid"; "" iff the text
\* is null or blank after trimming; otherwise "Invalid" iff some token that
\* is non-empty after trimming occurs case-insensitively in the trimmed text,
\* else "Valid"; the result is the same for every permutation of the tokens
\* and with blank tokens added or removed.
C5_Years2Classification ==
    Called("years2_invalid") =>
        LET s == call.s
            ys == call.ys
            out == call.out
            blank == s = None \/ Strip(py_str(s)) = <<>>
            hit == \E i \in 1..Len(ys) :
                      /\ NonBlank(ys[i])
                      /\ Contains(Lower(Strip(ys[i])), Lower(Strip(py_str(s))))
        IN /\ out \in {EMPTY, VALID, INVALID}
           /\ (out = EMPTY) <=> blank
           /\ ~blank => ((out = INVALID) <=> hit)
           /\ ~blank => ((out = VALID) <=> ~hit)
           /\ \A p \in Perms(Len(ys)) :
                 years2_invalid(s, [i \in 1..Len(ys) |-> ys[p[i]]]) = out
           /\ years2_invalid(s, SelectSeq(ys, NonBlank)) = out
           /\ \A j \in 1..(Len(ys) + 1), b \in {<<>>, S_blank} :
                 years2_invalid(s, InsertAt(ys, j, b)) = out

C5_Witness ==
    /\ Called("years2_invalid")
    /\ call.s = Str(S_2015_PRESENT)
    /\ call.ys = <<S_blank, S_2019, <<"p","R","e","s">>>>
    /\ call.out = INVALID

\* C6: safe_json_loads never raises; null, NaN or "" gives null; a mapping or
\* a sequence of any length is returned as it is; anything else is decoded as
\* JSON text, null when decoding fails.
C6_SafeJsonLoadsNeverRaises ==
    Called("safe_json_loads") =>
        LET x == call.x
            out == call.out
        IN /\ ~out.raised
           /\ out.value =
                (IF x \in {None, NaN} \/ IsEmptyStr(x) THEN None
                 ELSE IF x.t \in {"dict", "list"} THEN x
                 ELSE IF json_loads(x).raised THEN None
                 ELSE json_loads(x).value)

\* C8: fix_job_period_key keeps length and order; a mapping with job_period
\* and without job_time_period gets job_period renamed to job_time_period with
\* its value; every other entry is passed through unchanged, so an existing
\* job_time_period value is never overwritten or dropped; a non-list is
\* returned unchanged.
C8_FixRenamesOnlyWhenCanonicalAbsent ==
    Called("fix_job_period_key") =>
        LET x == call.x
            out == call.out
        IN IF x.t # "list" THEN out = x
           ELSE /\ out.t = "list"
                /\ Len(out.l) = Len(x.l)
                /\ \A i \in 1..Len(x.l) :
                     LET e == x.l[i]
                         o == out.l[i]
                     IN IF e.t = "dict" /\ job_period \in DOMAIN e.d
                           /\ job_time_period \notin DOMAIN e.d
                        THEN /\ o.t = "dict"
                             /\ DOMAIN o.d =
                                  (DOMAIN e.d \ {job_period}) \cup {job_time_period}
                             /\ o.d[job_time_period] = e.d[job_period]
                             /\ \A k \in DOMAIN e.d \ {job_period} : o.d[k] = e.d[k]
                        ELSE o = e

C8_Witness ==
    /\ Called("fix_job_period_key")
    /\ call.x.t = "list"
    /\ Len(call.x.l) = 2
    /\ call.x.l[1].t = "dict"
    /\ job_period \in DOMAIN call.x.l[1].d
    /\ job_time_period \notin DOMAIN call.x.l[1].d
    /\ call.out.l[1] # call.x.l[1]
    /\ call.x.l[2].t = "dict"
    /\ {job_period, job_time_period} \subseteq DOMAIN call.x.l[2].d
    /\ call.out.l[2] = call.x.l[2]

\* C10: key normalisation never changes which experience is selected: the
\* entry selected from fix_job_period_key(L) stands at the index of the entry
\* selected from L and is the normalised form of that entry, and the period
\* extracted from it equals the period extracted from the entry of L.
C10_NormalizationKeepsSelection ==
    Called("current_period") =>
        LET x == call.x IN
        IF x.t # "list" \/ Len(x.l) = 0
        THEN call.cur = None /\ pick_current_experience(x) = None
        ELSE LET i == CurrentIndex(x.l) IN
             /\ pick_current_experience(x) = x.l[i]
             /\ CurrentIndex(call.fixed.l) = i
             /\ call.cur = call.fixed.l[i]
             /\ call.period = extract_fields(x.l[i]).period

C10_Witness ==
    /\ Called("current_period")
    /\ call.x.t = "list"
    /\ Len(call.x.l) = 2
    /\ CurrentIndex(call.x.l) = 2
    /\ call.fixed.l[2] # call.x.l[2]
    /\ call.cur = call.fixed.l[2]
    /\ call.period = Str(S_Present)

(* ======================= properties of the pipeline ==================== *)
Started == pc # "idle"
HasColumn(name) == name \in Range(uploaded.cols)
Rows == 1..Len(df.rows)

\* the uploaded `experiences` cell of row i
Cell(i) == uploaded.rows[i]["experiences"]

AllEmpty(i, names) == \A name \in names : df.rows[i][name] = EMPTY

ExpColumns ==
    {"current_job_time_period", "current_company_name_from_exp",
     "current_job_title_from_exp", "current_linkedin_company_url_from_exp",
     "current_job_time_period_validity", "company_name_similarity_to_exp"}

\* C1: a run over a table without the `experiences` column, or without the
\* `company_name` column, completes without an error: every row is emitted and
\* the derived columns that depend on the absent column are null/empty in
\* every row.
C1_MissingColumnDegrades ==
    (Started /\ (~HasColumn("experiences") \/ ~HasColumn("company_name"))) =>
        /\ pc # "error"
        /\ pc = "done" =>
             /\ Len(df.rows) = Len(uploaded.rows)
             /\ ~HasColumn("experiences") =>
                  \A i \in Rows : /\ df.rows[i]["experiences_json"] = None
                                  /\ AllEmpty(i, ExpColumns)
             /\ ~HasColumn("company_name") =>
                  \A i \in Rows : df.rows[i]["company_name_similarity_to_exp"] = EMPTY

\* C2: after a run the output has the input's rows in the input's order, and
\* every original column stands at its original position with its original
\* cell values, whatever the input's column names; derived columns are only
\* appended after the original ones.
C2_OriginalColumnsPreserved ==
    pc = "done" =>
        /\ Len(df.rows) = Len(uploaded.rows)
        /\ Len(df.cols) >= Len(uploaded.cols)
        /\ \A j \in 1..Len(uploaded.cols) :
             /\ df.cols[j] = uploaded.cols[j]
             /\ \A i \in Rows :
                  df.rows[i][uploaded.cols[j]] = uploaded.rows[i][uploaded.cols[j]]

Required == HasColumn("experiences") /\ HasColumn("company_name")

IsListOfMappings(v) ==
    v.t = "list" /\ Len(v.l) > 0 /\ \A k \in 1..Len(v.l) : v.l[k].t = "dict"

HasNoMapping(v) == v.t # "list" \/ \A k \in 1..Len(v.l) : v.l[k].t # "dict"

Undecodable(c) == isna_scalar(c) \/ IsEmptyStr(c) \/ json_loads(c).raised

\* C3 as stated: a run over a table with the required columns completes, and
\* each row whose cell is null, empty, undecodable or decodes to something
\* that is not a non-empty list of mappings has experiences_json null (or the
\* passed-through non-list value) and the six derived values "".
C3_AsStated ==
    (Started /\ Required) =>
        /\ pc # "error"
        /\ pc = "done" =>
             \A i \in Rows :
                (Undecodable(Cell(i)) \/ ~IsListOfMappings(json_loads(Cell(i)).value)) =>
                    /\ \/ df.rows[i]["experiences_json"] = None
                       \/ /\ df.rows[i]["experiences_json"].t # "list"
                          /\ df.rows[i]["experiences_json"] = json_loads(Cell(i)).value
                    /\ AllEmpty(i, ExpColumns)

\* C3 amended: a run over a table with the required columns completes, and
\* each row whose cell is null, empty, undecodable or decodes to a value that
\* holds no mapping (a non-list, an empty list, a list of non-mappings) has
\* experiences_json null or that decoded value, and the six derived values "".
C3_RunCompletesBadRowsEmpty ==
    (Started /\ Required) =>
        /\ pc # "error"
        /\ pc = "done" =>
             \A i \in Rows :
                (Undecodable(Cell(i)) \/ HasNoMapping(json_loads(Cell(i)).value)) =>
                    /\ df.rows[i]["experiences_json"] =
                         (IF Undecodable(Cell(i)) THEN None
                          ELSE json_loads(Cell(i)).value)
                    /\ AllEmpty(i, ExpColumns)

C3_Witness ==
    /\ pc = "done"
    /\ Required
    /\ Len(df.rows) = 2
    /\ Cell(1) = Text(T_cut)
    /\ df.rows[1]["experiences_json"] = None
    /\ Cell(2) = Text(<<P("["), P("]")>>)
    /\ df.rows[2]["experiences_json"] = List(<<>>)
    /\ AllEmpty(1, ExpColumns) /\ AllEmpty(2, ExpColumns)

Blank(v) == Strip(py_str(v)) = <<>>

\* C7: company_name_similarity_to_exp is "" whenever the row's company_name
\* is missing (null/NaN cell or absent column) or blank after trimming, or
\* current_company_name_from_exp is blank after trimming; otherwise it is a
\* number in [0,1], 1 when the two strings are identical.
C7_SimilaritySentinelOrUnitInterval ==
    pc = "done" =>
        \A i \in Rows :
            LET r == df.rows[i]
                sim == r["company_name_similarity_to_exp"]
                missing == \/ ~HasColumn("company_name")
                           \/ isna_scalar(r["company_name"])
                           \/ Blank(r["company_name"])
            IN IF missing \/ Blank(r["current_company_name_from_exp"])
               THEN sim = EMPTY
               ELSE /\ sim.t = "float"
                    /\ 0 <= sim.num /\ sim.num <= sim.den /\ sim.den > 0
                    /\ (py_str(r["company_name"])
                          = py_str(r["current_company_name_from_exp"]))
                          => sim.num = sim.den

\* the first of `keys` that `cur` holds with a truthy value, else ""
RECURSIVE FirstTruthy(_, _)
FirstTruthy(cur, keys) ==
    IF keys = <<>> THEN EMPTY
    ELSE IF Head(keys) \in DOMAIN cur.d /\ Truthy(cur.d[Head(keys)])
         THEN cur.d[Head(keys)]
    ELSE FirstTruthy(cur, Tail(keys))

Chain(cur, keys) == IF cur.t = "dict" THEN FirstTruthy(cur, keys) ELSE EMPTY

Extracted == pc \in {"validity", "similarity", "done"}

\* C9: in every row the four extracted fields come from the selected current
\* experience by ordered fallback chains that skip an absent or falsy value:
\* period = job_time_period, job_period, ""; company = company_name, "";
\* title = title, job_title, ""; URL = linkedin_company_url,
\* linkedin_company_url_cleaned, ""; all four are "" when the current
\* experience is null or no mapping; entry i of each column comes from row i.
C9_FieldFallbackChains ==
    Extracted =>
        \A i \in Rows :
            LET cur == pick_current_experience(df.rows[i]["experiences_json"])
                r == df.rows[i]
            IN /\ r["current_job_time_period"]
                    = Chain(cur, <<job_time_period, job_period>>)
               /\ r["current_company_name_from_exp"] = Chain(cur, <<company_name>>)
               /\ r["current_job_title_from_exp"] = Chain(cur, <<title, job_title>>)
               /\ r["current_linkedin_company_url_from_exp"]
                    = Chain(cur, <<linkedin_company_url, linkedin_company_url_cleaned>>)

C9_Witness ==
    /\ pc = "done"
    /\ Len(df.rows) = 2
    /\ Cell(1) = Text(T_list2)
    /\ df.rows[1]["current_job_time_period"] = Str(S_2015_PRESENT)
    /\ df.rows[1]["current_company_name_from_exp"] = Str(S_Acme_Inc)
    /\ df.rows[1]["current_job_title_from_exp"] = Str(S_Dev)
    /\ df.rows[1]["current_linkedin_company_url_from_exp"] = Str(S_url)
    /\ Cell(2) = Text(T_nums)
    /\ df.rows[2]["current_job_time_period"] = EMPTY
====
